---- MODULE Spec2Model ----
(***************************************************************************)
(* Model of the proxnlp primal-dual augmented Lagrangian solver            *)
(* (include/proxnlp/solver-base.hxx): the three solve entrypoints, the      *)
(* outer BCL loop of SolverTpl::solve and the inner Newton loop of          *)
(* SolverTpl::solveInner with its NaN guards and inertia correction.        *)
(*                                                                         *)
(* Scalars.  A Scalar of the program is modelled on a geometric grid: the   *)
(* integer e in MinExp..MaxExp stands for the value 10^e, ZeroS for 0 and   *)
(* InfS for a value above the grid.  On this grid a product is a sum of     *)
(* exponents, pow(a, n) is n * a, and the order of the values is the order  *)
(* of the integers, so <, <=, == and std::max are computed exactly.  A      *)
(* product that falls below 10^MinExp underflows to 0, as it does in a      *)
(* double.                                                                 *)
(*                                                                         *)
(* Numerical inputs.  The quantities the solver obtains from the problem    *)
(* (residual norms, the LDLT sign signature, whether a buffer holds a NaN)  *)
(* are inputs of the steps that read them and are drawn from small sets.    *)
(* One behaviour is one call of solve.                                      *)
(*                                                                         *)
(* Block LDLT.  The symbolic part of the block-sparse factorization         *)
(* (namespace block_chol in solver-base.hxx, the allocator in               *)
(* ldlt-allocator.hpp) is modelled on tag matrices: a SymbolicBlockMatrix   *)
(* is a record of its segments_count, its segment_lens and its tags, a      *)
(* function on the pairs (i, j) of 1..segments_count (the program counts    *)
(* from 0).  BlockSpec runs these functions on inputs drawn from bounded    *)
(* sets; the solver is idle in BlockSpec and the block part is idle in Spec.*)
(*                                                                         *)
(* Functions on their own.  UnitSpec calls checkInertia and                *)
(* computeMultipliers on arguments drawn from bounded sets.  The scalars of *)
(* computeMultipliers are integers in exact arithmetic, with inputs for    *)
(* which the quotient by mu is exact.  The diagonal of the KKT matrix is   *)
(* followed through kkt_shift, the deltas added to it and not subtracted   *)
(* again, in exact arithmetic as well.                                     *)
(*                                                                         *)
(* CostSum.  CostSpec follows the component list and the weight list of one *)
(* CostSum (src/cost-sum.hpp) through addComponent, the three operator+=   *)
(* and operator*=; a call that recurses adds one frame per step until the  *)
(* stack holds MaxDepth of them.                                           *)
(*                                                                         *)
(* Not modelled: logging, callbacks, results.value / merit / mu / rho       *)
(* (diagnostic copies), the numerical content of matrices and gradients.    *)
(***************************************************************************)
EXTENDS Integers, Sequences, FiniteSets, TLC

\* ------------------------------------------------------------------ bounds

\* Largest max_iters the solver is configured with.
MaxIters == 2
\* The grid of scalars spans 10^-ExpSpan .. 10^ExpSpan.
ExpSpan == 6
\* Largest number of components a CostSum is grown to.
MaxComponents == 3
\* Largest weight a CostSum is scaled to.
MaxWeight == 4
\* Frames of one function the stack holds before it is exhausted.
MaxDepth == 3

\* ----------------------------------------------------------------- scalars

MinExp == 0 - ExpSpan
MaxExp == ExpSpan
ZeroS == MinExp - 1
InfS == MaxExp + 1

\* a * b
Mul(a, b) ==
  IF a = ZeroS \/ b = ZeroS THEN ZeroS
  ELSE IF a = InfS \/ b = InfS THEN InfS
  ELSE IF a + b < MinExp THEN ZeroS
  ELSE IF a + b > MaxExp THEN InfS
  ELSE a + b

\* a / b, b > 0 finite
Div(a, b) ==
  IF a = ZeroS THEN ZeroS
  ELSE IF a = InfS THEN InfS
  ELSE IF a - b < MinExp THEN ZeroS
  ELSE IF a - b > MaxExp THEN InfS
  ELSE a - b

\* std::pow(a, n) for a natural exponent n
Pow(a, n) ==
  IF n = 0 THEN 0
  ELSE IF a = ZeroS THEN ZeroS
  ELSE IF a = InfS THEN InfS
  ELSE IF n * a < MinExp THEN ZeroS
  ELSE IF n * a > MaxExp THEN InfS
  ELSE n * a

\* std::max(a, b)
Max(a, b) == IF a < b THEN b ELSE a

\* ----------------------------------------------------- solver parameters
\* Exponents on the scalar grid (10^e).

\* SolverTpl constructor arguments
target_tol == -3
mu_init_ == -1
mu_lower_ == -3
prim_alpha == 1
prim_beta == 1
dual_alpha == 1
dual_beta == 1
\* BCL parameters and tolerances of the solver class
mu_update_factor == -1
rho_update_factor == -1
mu_upper_ == 0
prim_tol0 == 0
inner_tol0 == 0
inner_tol_min == -4
\* inertia-correction parameters of the solver class
DELTA_INIT == ZeroS
DELTA_NONZERO_INIT == -2
DELTA_MIN == -4
DELTA_MAX == 2
del_inc_k == 1
del_inc_big == 2
del_dec_k == -1

\* ------------------------------------------------------------- the problem

\* manifold().ndx()
ndx == 1
\* getConstraintDim(i), i = 1..getNumConstraints()
ConstraintDims == <<1, 2>>
getNumConstraints == Len(ConstraintDims)
getConstraintDim(i) == ConstraintDims[i]

RECURSIVE SumDims(_)
SumDims(n) == IF n = 0 THEN 0 ELSE SumDims(n - 1) + ConstraintDims[n]

\* getIndex(i): offset (0-based) of constraint i's segment in the flat vectors
getIndex(i) == SumDims(i - 1)
getTotalConstraintDim == SumDims(getNumConstraints)
\* workspace.numdual
numdual == getTotalConstraintDim

\* ------------------------------------------------------------------ inputs

\* Points of the manifold are abstract identities: 0 is neutral(), the point the
\* results and the proximal target hold after construction; the caller passes
\* a start point from XVals; each accepted step yields a point not seen before.
XVals == {1}
TrialPoint(x) == x + 1
\* Multipliers are vectors of naturals; a step moves every entry.
ZeroLams == [k \in 1..numdual |-> 0]
TrialLams(lams) == [k \in DOMAIN lams |-> lams[k] + 1]
\* flat multiplier vectors of length numdual the caller passes
FlatLams == {ZeroLams, <<5, 6, 7>>}
\* one vector per constraint, each of its constraint's dimension
GoodLists == {<< <<5>>, <<6, 7>> >>, << <<7>>, <<5, 6>> >>}
\* lists whose length is not the number of constraints
BadLists == {<<>>, << <<5>> >>, << <<5>>, <<6, 7>>, <<5>> >>}
ListInputs == GoodLists \cup BadLists
\* residual norms delivered by the problem at an iterate
NormInputs == {ZeroS, target_tol, 0}
\* sign signatures delivered by the factorization (length ndx + numdual)
SignatureInputs ==
  { <<1, -1, -1, -1>>, <<1, 1, -1, -1>>, <<1, 0, -1, -1>>,
    <<-1, -1, -1, -1>>, <<1, 2, -1, -1>> }

\* ------------------------------------------------------------- block kinds

\* enum BlockKind, by the integer value of each enumerator
Zero == 0
Diag == 1
TriL == 2
TriU == 3
Dense == 4
BlockKinds == {Zero, Diag, TriL, TriU, Dense}

\* BlockKind of the transpose of a matrix
trans(a) == IF (a = TriL) \/ (a = TriU) THEN TriU ELSE a

\* add without the test on the sum of the two enumerators
add_MaxOnly(a, b) == IF a = Dense \/ b = Dense THEN Dense ELSE Max(a, b)

\* BlockKind of the addition of two matrices
add(a, b) ==
  IF a = Dense \/ b = Dense \/ a + b = TriL + TriU THEN Dense ELSE Max(a, b)

\* BlockKind of the product of two matrices
mul(a, b) == IF a = Zero \/ b = Zero THEN Zero ELSE add(a, b)

\* --------------------------------------------------- symbolic block matrix

Cells(n) == (1..n) \X (1..n)

SymbolicBlockMatrix(lens, tags) ==
  [segments_count |-> Len(lens), segment_lens |-> lens, tags |-> tags]

\* a matrix object that holds no segment
NoMatrix == SymbolicBlockMatrix(<<>>, [p \in Cells(0) |-> Zero])

nsegments(M) == M.segments_count

\* the permutations of 1..n, as sequences
PermSet(n) == {p \in [1..n -> 1..n] : \A i, j \in 1..n : p[i] = p[j] => i = j}

\* std::iota(iwork, iwork + n, 0)
iota(n) == [i \in 1..n |-> i]

\* lexicographic order of std::next_permutation
LexLess(p, q) ==
  \E k \in DOMAIN p : p[k] < q[k] /\ \A m \in 1..(k - 1) : p[m] = q[m]

\* std::next_permutation: the next sequence in lexicographic order; after the
\* last one the sequence is sorted again and false is returned
next_permutation(p) ==
  LET greater == {q \in PermSet(Len(p)) : LexLess(p, q)}
  IN  IF greater = {}
      THEN [more |-> FALSE, perm |-> iota(Len(p))]
      ELSE [more |-> TRUE,
            perm |-> CHOOSE q \in greater : \A r \in greater : r = q \/ LexLess(q, r)]

\* deep_copy(in, perm) with perm != nullptr
deep_copy(in, perm) ==
  SymbolicBlockMatrix(
    [i \in 1..nsegments(in) |-> in.segment_lens[perm[i]]],
    [p \in Cells(nsegments(in)) |-> in.tags[<<perm[p[1]], perm[p[2]]>>]])

\* count_nnz: the contribution of block (i, j)
BlockNnz(M, i, j) ==
  LET k == M.segment_lens[i]
  IN  CASE M.tags[<<i, j>>] = Zero -> 0
        [] M.tags[<<i, j>>] = Diag -> M.segment_lens[i]
        [] M.tags[<<i, j>>] \in {TriL, TriU} -> (k * (k + 1)) \div 2
        [] M.tags[<<i, j>>] = Dense -> M.segment_lens[i] * M.segment_lens[j]

\* count_nnz: the sum over the first c blocks in row-major order
RECURSIVE SumBlocks(_, _)
SumBlocks(M, c) ==
  IF c = 0 THEN 0
  ELSE SumBlocks(M, c - 1)
         + BlockNnz(M, ((c - 1) \div nsegments(M)) + 1, ((c - 1) % nsegments(M)) + 1)

count_nnz(M) == SumBlocks(M, nsegments(M) * nsegments(M))

\* llt_in_place on the submatrix that starts at segment o: zero triu part
ZeroTriu(T, o) == [p \in DOMAIN T |-> IF p[1] = o /\ p[2] > o THEN Zero ELSE T[p]]

\* llt_in_place: the switch on self(i, 0) under a Dense pivot
PromoteL10(k) ==
  IF k = Zero \/ k = Diag THEN TriU ELSE IF k = TriL THEN Dense ELSE k

\* llt_in_place: the switch on self(0, 0), for a pivot that is Diag or Dense
PivotSwitch(T, o) ==
  IF T[<<o, o>>] = Dense
  THEN [p \in DOMAIN T |->
          IF p = <<o, o>> THEN TriL
          ELSE IF p[2] = o /\ p[1] > o THEN PromoteL10(T[p])
          ELSE T[p]]
  ELSE T

\* llt_in_place: update l11.  Every assignment reads column 0 and the old
\* value of the block it writes, so the loop is one simultaneous assignment.
UpdateL11(T, o) ==
  LET upd(i, j) == add(T[<<i, j>>], mul(T[<<i, o>>], trans(T[<<j, o>>])))
  IN  [p \in DOMAIN T |->
         IF p[1] > o /\ p[2] > o
         THEN (IF p[1] <= p[2] THEN upd(p[1], p[2]) ELSE trans(upd(p[2], p[1])))
         ELSE T[p]]

\* llt_in_place: whether the pivot block lets the factorization continue
PivotAccepted(T, o) == T[<<o, o>>] \in {Diag, Dense}

\* llt_in_place: one level of the recursion with an accepted pivot
EliminationStep(T, o) == UpdateL11(PivotSwitch(ZeroTriu(T, o), o), o)

\* llt_in_place on the submatrix that starts at segment o
RECURSIVE llt_in_place(_, _)
llt_in_place(M, o) ==
  IF o > nsegments(M) THEN [ok |-> TRUE, self |-> M]
  ELSE IF ~PivotAccepted(M.tags, o)
       THEN [ok |-> FALSE, self |-> [M EXCEPT !.tags = ZeroTriu(M.tags, o)]]
       ELSE llt_in_place([M EXCEPT !.tags = EliminationStep(M.tags, o)], o + 1)

\* allocate_block_ldlt_from_structure: primal blocks are dense
PrimalBlocks(T, np) ==
  [p \in DOMAIN T |-> IF p[1] <= np /\ p[2] <= np THEN Dense ELSE T[p]]

\* allocate_block_ldlt_from_structure: the writes of dual row i, in order; the
\* "first col/row" index nprim_blocks of the program is segment np + 1 here
DualRow(T, i, np) ==
  LET T1 == [T EXCEPT ![<<i, np + 1>>] = Dense]
      T2 == [T1 EXCEPT ![<<np + 1, i>>] = Dense]
      T3 == [p \in DOMAIN T2 |-> IF p[1] = i /\ p[2] > np THEN Zero ELSE T2[p]]
  IN  [T3 EXCEPT ![<<i, i>>] = Diag]

\* allocate_block_ldlt_from_structure: the loop over the dual rows i..nb
RECURSIVE DualRows(_, _, _, _)
DualRows(T, i, np, nb) ==
  IF i > nb THEN T ELSE DualRows(DualRow(T, i, np), i + 1, np, nb)

\* allocate_block_ldlt_from_structure: the structure handed to BlockLDLT; the
\* vector of kinds is value-initialized, i.e. every block starts as enumerator 0
allocate_block_ldlt_from_structure(nprims, nduals) ==
  LET np == Len(nprims)
      nb == Len(nprims) + Len(nduals)
  IN  SymbolicBlockMatrix(
        nprims \o nduals,
        DualRows(PrimalBlocks([p \in Cells(nb) |-> 0], np), np + 1, np, nb))

\* allocate_ldlt_from_problem for a problem with the first k constraints
allocate_ldlt_from_problem(k) ==
  allocate_block_ldlt_from_structure(<<ndx>>, [i \in 1..k |-> getConstraintDim(i)])

\* segment lengths of the structures a caller builds by hand
LensInputs == {<<2>>, <<2, 1>>, <<2, 1, 3>>, <<1, 2, 2>>}

\* kinds a caller puts on the diagonal of a structure
DiagInputs == {Zero, Diag, Dense}

LowerCells(n) == {p \in Cells(n) : p[1] > p[2]}

\* a caller-built structure: diagonal d, strict lower part l, and the strict
\* upper part the transposed kinds of the lower part
SymmetricTags(n, d, l) ==
  [p \in Cells(n) |->
     IF p[1] = p[2] THEN d[p[1]]
     ELSE IF p[1] > p[2] THEN l[p]
     ELSE (IF l[<<p[2], p[1]>>] = TriL THEN TriU
           ELSE IF l[<<p[2], p[1]>>] = TriU THEN TriL
           ELSE l[<<p[2], p[1]>>])]

\* the structures with the segment lengths lens
StructureInputs(lens) ==
  {SymbolicBlockMatrix(lens, SymmetricTags(Len(lens), d, l)) :
     d \in [1..Len(lens) -> DiagInputs], l \in [LowerCells(Len(lens)) -> BlockKinds]}

\* ------------------------------------------------------------------- state

VARIABLES
  \* SolverTpl
  mu, rho, prim_tol, inner_tol, max_iters, rho_init_, ls_strat,
  \* proximal penalty target and weight matrix (diagonal value, off-diagonal value)
  prox_target, weights_,
  \* Results
  x_opt, lams_opt, num_iters, converged, prim_infeas, dual_infeas,
  \* Workspace; kkt_shift is what the first ndx diagonal entries of kkt_matrix
  \* hold on top of their assembled values
  x_prev, lams_prev, kkt_nan, kkt_shift,
  \* locals of solveInner
  delta, delta_last, is_inertia_correct,
  \* call frame: position, entrypoint, arguments, raised error
  pc, entry, x0, lams0, arg_list, error,
  \* history: results.converged on entry of the call, and the values assigned
  \* to results.converged during the call, in order
  converged_entry, conv_writes,
  \* block_chol: position, arguments and results of trans / add / mul
  blk_pc, kind_args, kind_out,
  \* block_chol: the matrix `in`, the matrix `*this`, how `in` was built, the
  \* submatrix offset of the llt_in_place recursion, the value returned
  blk_in, blk_self, blk_origin, blk_off, blk_ret,
  \* block_chol: iwork, best_perm and locals of brute_force_best_permutation
  iwork, best_perm, best_perm_nnz, first_iter,
  \* a call of checkInertia or computeMultipliers on its own: position,
  \* arguments, result
  fn_pc, fn_args, fn_out,
  \* CostSum: position, the two lists of *this, the operator call in progress
  \* (operator, lists of *this before it, right-hand side) and the number of
  \* frames of operator+=(CostSum&&) on the stack
  cs_pc, m_components, m_weights, cs_call, cs_depth

solver_vars == <<mu, rho, prim_tol, inner_tol, max_iters, rho_init_, ls_strat, prox_target,
                 weights_>>
results_vars == <<x_opt, lams_opt, num_iters, converged, prim_infeas, dual_infeas>>
workspace_vars == <<x_prev, lams_prev, kkt_nan, kkt_shift>>
local_vars == <<delta, delta_last, is_inertia_correct>>
frame_vars == <<entry, x0, lams0, arg_list>>
hist_vars == <<converged_entry, conv_writes>>
solve_vars == <<solver_vars, results_vars, workspace_vars, local_vars, pc, frame_vars, error, hist_vars>>
block_vars == <<blk_pc, kind_args, kind_out, blk_in, blk_self, blk_origin, blk_off, blk_ret,
                iwork, best_perm, best_perm_nnz, first_iter>>
unit_vars == <<fn_pc, fn_args, fn_out>>
cost_vars == <<cs_pc, m_components, m_weights, cs_call, cs_depth>>
vars == <<solve_vars, block_vars, unit_vars, cost_vars>>

\* the block part before any of its functions is called
BlockIdle(at) ==
  /\ blk_pc = at
  /\ kind_args = <<>>
  /\ kind_out = <<>>
  /\ blk_in = NoMatrix
  /\ blk_self = NoMatrix
  /\ blk_origin = "none"
  /\ blk_off = 0
  /\ blk_ret = "none"
  /\ iwork = <<>>
  /\ best_perm = <<>>
  /\ best_perm_nnz = 0
  /\ first_iter = FALSE

\* no call has been made on this solver, workspace and results
Callable == {"idle"}

\* no call of checkInertia or computeMultipliers on its own
UnitIdle(at) ==
  /\ fn_pc = at
  /\ fn_args = <<>>
  /\ fn_out = <<>>

\* a CostSum as CostSum(nx, ndx) constructs it: no component, no weight
EmptySum == [components |-> <<>>, weights |-> <<>>]

\* no operator of a CostSum has been called
NoCall == [op |-> "none", components |-> <<>>, weights |-> <<>>, rhs |-> EmptySum]

CostIdle(at) ==
  /\ cs_pc = at
  /\ m_components = <<>>
  /\ m_weights = <<>>
  /\ cs_call = NoCall
  /\ cs_depth = 0

\* kkt_matrix as assembled: for every nonzero scalar of the grid, how many
\* times it is added on top of the assembled diagonal (none)
NoShift == [d \in MinExp..InfS |-> 0]

\* a square matrix with `d` on the diagonal and zero elsewhere, kept as its
\* diagonal value and its off-diagonal value
ScaledIdentity(d) == [diag |-> d, offdiag |-> ZeroS]

\* State before a call of solve: solver and workspace as constructed; results as
\* constructed (UNINITIALIZED) or as an earlier solve left its converged flag.
SolverInit ==
  /\ mu = mu_init_
  /\ rho_init_ \in {ZeroS, MinExp + 2}
  /\ rho = rho_init_
  /\ prim_tol = prim_tol0
  /\ inner_tol = inner_tol0
  /\ max_iters \in 0..MaxIters
  /\ ls_strat \in {"ARMIJO", "CUBIC_INTERP"}
  /\ prox_target = 0
  /\ weights_ = ScaledIdentity(rho_init_)
  /\ x_opt = 0
  /\ lams_opt = ZeroLams
  /\ num_iters = 0
  /\ converged \in {"UNINITIALIZED", "SUCCESS", "MAX_ITERS_REACHED"}
  /\ prim_infeas = ZeroS
  /\ dual_infeas = ZeroS
  /\ x_prev = 0
  /\ lams_prev = ZeroLams
  /\ kkt_nan = FALSE
  /\ kkt_shift = NoShift
  /\ delta = ZeroS
  /\ delta_last = ZeroS
  /\ is_inertia_correct = "INERTIA_BAD"
  /\ pc = "idle"
  /\ entry = "none"
  /\ x0 = 0
  /\ lams0 = ZeroLams
  /\ arg_list = <<>>
  /\ error = "none"
  /\ converged_entry = converged
  /\ conv_writes = <<>>

\* the solver before a call of solve; no block_chol function is called, no
\* function is called on its own, no CostSum is in use
Init == SolverInit /\ BlockIdle("idle") /\ UnitIdle("idle") /\ CostIdle("idle")

\* ------------------------------------------------------ tolerances, penalty

\* variant: the floor on prim_tol_ is not applied
tolerancePostUpdate_NoPrimFloor(pt, it) == <<pt, Max(it, inner_tol_min)>>

\* tolerancePostUpdate: <<prim_tol_, inner_tol_>> after the floors
tolerancePostUpdate(pt, it) == <<Max(pt, target_tol), Max(it, inner_tol_min)>>

\* updateToleranceFailure scaling the previous tolerances, as the success
\* update does
updateToleranceFailure_Scaled(m) ==
  tolerancePostUpdate(Mul(prim_tol, Pow(m, prim_alpha)),
                      Mul(inner_tol, Pow(m, dual_alpha)))

\* updateToleranceFailure at penalty m
updateToleranceFailure(m) ==
  tolerancePostUpdate(Mul(prim_tol0, Pow(m, prim_alpha)),
                      Mul(inner_tol0, Pow(m, dual_alpha)))

\* updateToleranceSuccess from the current tolerances at penalty m
updateToleranceSuccess(pt, it, m) ==
  tolerancePostUpdate(Mul(pt, Pow(Div(m, mu_upper_), prim_beta)),
                      Mul(it, Pow(Div(m, mu_upper_), dual_beta)))

\* updatePenalty: the new mu_
updatePenalty(m) ==
  IF m = mu_lower_ THEN mu_init_ ELSE Max(Mul(m, mu_update_factor), mu_lower_)

\* ------------------------------------------------------ proximal parameter

\* setProxParameter that stores rho_ and leaves the weight matrix as it was
setProxParameter_KeepWeights(new_rho) ==
  /\ rho' = new_rho
  /\ weights_' = weights_

\* setProxParameter: rho_ = new_rho; weights_.setZero();
\* weights_.diagonal().setConstant(rho_)
setProxParameter(new_rho) ==
  /\ rho' = new_rho
  /\ weights_' = [diag |-> new_rho, offdiag |-> ZeroS]

\* --------------------------------------------------------------- call frame

\* the frame's arguments and the locals of solveInner go out of scope
PopFrame ==
  /\ entry' = "none"
  /\ x0' = 0
  /\ lams0' = ZeroLams
  /\ arg_list' = <<>>
  /\ delta' = ZeroS
  /\ delta_last' = ZeroS
  /\ is_inertia_correct' = "INERTIA_BAD"

\* an exception leaves solve
Raise(name) ==
  /\ pc' = "raised"
  /\ error' = name
  /\ PopFrame

\* a call begins: remember results.converged as it is on entry
EnterCall ==
  /\ pc \in Callable
  /\ converged_entry' = converged
  /\ conv_writes' = <<>>

\* ------------------------------------------------------------- entrypoints

\* variant: the segment is written at the head of the vector
SetSegment_Head(vec, start, n, src) ==
  [k \in DOMAIN vec |-> IF k <= n THEN src[k] ELSE vec[k]]

\* vec with src written to the segment of length n starting at (0-based) start
SetSegment(vec, start, n, src) ==
  [k \in DOMAIN vec |-> IF start < k /\ k <= start + n THEN src[k - start] ELSE vec[k]]

\* the loop over the constraints, from constraint i on
RECURSIVE FillSegments(_, _, _)
FillSegments(vec, list, i) ==
  IF i > getNumConstraints THEN vec
  ELSE FillSegments(SetSegment(vec, getIndex(i), getConstraintDim(i), list[i]), list, i + 1)

\* new_lam as the per-constraint overload builds it
NewLam(list) == FillSegments(ZeroLams, list, 1)

\* variant: results.x_opt is initialised before the size check
SolveListRaise_AfterInit ==
  /\ pc' = "raised"
  /\ error' = "num_multipliers"
  /\ x_opt' = 1
  /\ UNCHANGED <<solver_vars, lams_opt, num_iters, converged, prim_infeas, dual_infeas,
                 workspace_vars, local_vars, frame_vars>>

\* the size check fails: runtime error, before any write
SolveListRaise ==
  /\ pc' = "raised"
  /\ error' = "num_multipliers"
  /\ UNCHANGED <<solver_vars, results_vars, workspace_vars, local_vars, frame_vars>>

\* the size check passes: build new_lam and call the flat overload
SolveListCall(x, list) ==
  /\ pc' = "solve_flat"
  /\ entry' = "list"
  /\ arg_list' = list
  /\ x0' = x
  /\ lams0' = NewLam(list)
  /\ UNCHANGED <<solver_vars, results_vars, workspace_vars, local_vars, error>>

\* solve(workspace, results, x0, lams0) with one vector per constraint
SolveList ==
  /\ EnterCall
  /\ \E x \in XVals, list \in ListInputs :
       IF getNumConstraints # Len(list) THEN SolveListRaise ELSE SolveListCall(x, list)
  /\ UNCHANGED <<block_vars, unit_vars, cost_vars>>

\* solve(workspace, results, x0)
SolveNoLams ==
  /\ EnterCall
  /\ \E x \in XVals :
       /\ pc' = "solve_flat"
       /\ entry' = "x0"
       /\ arg_list' = <<>>
       /\ x0' = x
       /\ lams0' = [k \in 1..numdual |-> 0]
  /\ UNCHANGED <<solver_vars, results_vars, workspace_vars, local_vars, error>>
  /\ UNCHANGED <<block_vars, unit_vars, cost_vars>>

\* solve(workspace, results, x0, lams0) with a flat vector: the call itself
SolveFlat ==
  /\ EnterCall
  /\ \E x \in XVals, lams \in FlatLams :
       /\ pc' = "solve_flat"
       /\ entry' = "flat"
       /\ arg_list' = <<lams>>
       /\ x0' = x
       /\ lams0' = lams
  /\ UNCHANGED <<solver_vars, results_vars, workspace_vars, local_vars, error>>
  /\ UNCHANGED <<block_vars, unit_vars, cost_vars>>

\* the flat overload up to the outer loop; the arguments are not read again
SolveInit ==
  /\ pc = "solve_flat"
  /\ mu' = mu_init_
  /\ setProxParameter(rho_init_)
  /\ x_opt' = x0
  /\ x_prev' = x0
  /\ lams_opt' = lams0
  /\ lams_prev' = lams0
  /\ prim_tol' = updateToleranceFailure(mu_init_)[1]
  /\ inner_tol' = updateToleranceFailure(mu_init_)[2]
  /\ num_iters' = 0
  /\ pc' = "outer_loop"
  /\ entry' = "none" /\ x0' = 0 /\ lams0' = ZeroLams /\ arg_list' = <<>>
  /\ UNCHANGED <<max_iters, rho_init_, ls_strat, prox_target, converged, prim_infeas,
                 dual_infeas, kkt_nan, kkt_shift, local_vars, error, hist_vars>>
  /\ UNCHANGED <<block_vars, unit_vars, cost_vars>>

\* --------------------------------------------------------------- outer loop

\* variant: the bound is included
OuterLoopCond_Inclusive == num_iters <= max_iters

\* the condition of the outer loop: while (results.num_iters < max_iters)
OuterLoopCond == num_iters < max_iters

\* while (results.num_iters < max_iters): enter solveInner
OuterIterate ==
  /\ pc = "outer_loop"
  /\ OuterLoopCond
  /\ lams_opt' = lams_prev
  /\ delta_last' = ZeroS
  /\ delta' = ZeroS
  /\ pc' = "inner_loop"
  /\ UNCHANGED <<solver_vars, x_opt, num_iters, converged, prim_infeas, dual_infeas,
                 workspace_vars, is_inertia_correct, frame_vars, error, hist_vars>>
  /\ UNCHANGED <<block_vars, unit_vars, cost_vars>>

\* the loop condition fails: solve returns results.converged
OuterExit ==
  /\ pc = "outer_loop"
  /\ ~OuterLoopCond
  /\ pc' = "done"
  /\ PopFrame
  /\ UNCHANGED <<solver_vars, results_vars, workspace_vars, error, hist_vars>>
  /\ UNCHANGED <<block_vars, unit_vars, cost_vars>>

\* acceptMultipliers(workspace): the accepted multipliers become the current ones
acceptMultipliers == lams_prev' = lams_opt

\* prox_penalty.updateTarget(x)
updateTarget(x) == prox_target' = x

\* the acceptance test with <= in place of <
MultipliersAccepted_NonStrict == prim_infeas <= prim_tol

\* results.prim_infeas < prim_tol_
MultipliersAccepted == prim_infeas < prim_tol

\* variant: the dual infeasibility is not tested
OuterConverged_PrimOnly == prim_infeas < target_tol

\* the termination test of the outer loop
OuterConverged == prim_infeas < target_tol /\ dual_infeas < target_tol

\* after solveInner: accept the iterate and the multipliers, converged: stop
OuterSuccessTerminate ==
  /\ pc = "outer_update"
  /\ MultipliersAccepted
  /\ OuterConverged
  /\ x_prev' = x_opt
  /\ updateTarget(x_opt)
  /\ acceptMultipliers
  /\ converged' = "SUCCESS"
  /\ conv_writes' = Append(conv_writes, "SUCCESS")
  /\ pc' = "done"
  /\ PopFrame
  /\ UNCHANGED <<mu, rho, weights_, prim_tol, inner_tol, max_iters, rho_init_, ls_strat,
                 x_opt, lams_opt, num_iters, prim_infeas, dual_infeas,
                 kkt_nan, kkt_shift, error, converged_entry>>
  /\ UNCHANGED <<block_vars, unit_vars, cost_vars>>

\* after solveInner: accept the iterate and the multipliers, success update
OuterSuccessUpdate ==
  /\ pc = "outer_update"
  /\ MultipliersAccepted
  /\ ~OuterConverged
  /\ x_prev' = x_opt
  /\ updateTarget(x_opt)
  /\ acceptMultipliers
  /\ prim_tol' = updateToleranceSuccess(prim_tol, inner_tol, mu)[1]
  /\ inner_tol' = updateToleranceSuccess(prim_tol, inner_tol, mu)[2]
  /\ setProxParameter(Mul(rho, rho_update_factor))
  /\ pc' = "outer_loop"
  /\ UNCHANGED <<mu, max_iters, rho_init_, ls_strat, results_vars,
                 kkt_nan, kkt_shift, local_vars, frame_vars, error, hist_vars>>
  /\ UNCHANGED <<block_vars, unit_vars, cost_vars>>

\* after solveInner: accept the iterate, failure update of mu and tolerances
OuterFailureUpdate ==
  /\ pc = "outer_update"
  /\ ~MultipliersAccepted
  /\ x_prev' = x_opt
  /\ updateTarget(x_opt)
  /\ mu' = updatePenalty(mu)
  /\ prim_tol' = updateToleranceFailure(updatePenalty(mu))[1]
  /\ inner_tol' = updateToleranceFailure(updatePenalty(mu))[2]
  /\ setProxParameter(Mul(rho, rho_update_factor))
  /\ pc' = "outer_loop"
  /\ UNCHANGED <<max_iters, rho_init_, ls_strat, results_vars, lams_prev,
                 kkt_nan, kkt_shift, local_vars, frame_vars, error, hist_vars>>
  /\ UNCHANGED <<block_vars, unit_vars, cost_vars>>

\* --------------------------------------------------------------- inner loop

\* The norms one evaluation can deliver: without proximal term (rho_ = 0) the
\* dual residual is the head of kkt_rhs, so its norm is at most inner_crit.
ResidualInputs(inner_crit, pi, di) == (rho = ZeroS) => (di <= inner_crit)

\* variant: the outer condition is not part of the test
InnerStopTest_CritOnly(inner_crit, pi, di) == inner_crit <= inner_tol

\* the stopping test of the inner loop
InnerStopTest(inner_crit, pi, di) ==
  (inner_crit <= inner_tol) \/ (pi <= target_tol /\ di <= target_tol)

\* a NaN guard before the residuals are stored fires: prox_grad (computed when
\* rho_ > 0), kkt_rhs, or kkt_matrix as the workspace holds it
InnerRaiseNaN ==
  /\ pc = "inner_loop"
  /\ \E name \in {"prox_grad", "kkt_rhs", "kkt_matrix"} :
       /\ name = "prox_grad" => rho > ZeroS
       /\ name = "kkt_matrix" => kkt_nan
       /\ Raise(name)
  /\ UNCHANGED <<solver_vars, results_vars, workspace_vars, hist_vars>>
  /\ UNCHANGED <<block_vars, unit_vars, cost_vars>>

\* the guards pass, the residuals are stored and the stopping test returns
InnerStop ==
  /\ pc = "inner_loop"
  /\ ~kkt_nan
  /\ \E inner_crit \in NormInputs, pi \in NormInputs, di \in NormInputs :
       /\ ResidualInputs(inner_crit, pi, di)
       /\ InnerStopTest(inner_crit, pi, di)
       /\ prim_infeas' = pi
       /\ dual_infeas' = di
  /\ pc' = "outer_update"
  /\ UNCHANGED <<solver_vars, x_opt, lams_opt, num_iters, converged, workspace_vars,
                 local_vars, frame_vars, error, hist_vars>>
  /\ UNCHANGED <<block_vars, unit_vars, cost_vars>>

\* the guards pass, the residuals are stored, the KKT matrix is assembled
InnerAssemble ==
  /\ pc = "inner_loop"
  /\ ~kkt_nan
  /\ \E inner_crit \in NormInputs, pi \in NormInputs, di \in NormInputs :
       /\ ResidualInputs(inner_crit, pi, di)
       /\ ~InnerStopTest(inner_crit, pi, di)
       /\ prim_infeas' = pi
       /\ dual_infeas' = di
  /\ kkt_nan' \in BOOLEAN
  /\ kkt_shift' = NoShift
  /\ delta' = DELTA_INIT
  /\ is_inertia_correct' = "INERTIA_BAD"
  /\ pc' = "inertia_loop"
  /\ UNCHANGED <<solver_vars, x_opt, lams_opt, num_iters, converged, x_prev, lams_prev,
                 delta_last, frame_vars, error, hist_vars>>
  /\ UNCHANGED <<block_vars, unit_vars, cost_vars>>

\* ------------------------------------------------------- inertia correction

Count(sig, v) == Cardinality({i \in DOMAIN sig : sig[i] = v})

\* variant: a signature with zeros is reported as INERTIA_BAD
checkInertia_ZerosAsBad(sig) ==
  IF \E i \in DOMAIN sig : sig[i] \notin {1, 0, -1} THEN "error"
  ELSE LET pos_ok == Count(sig, 1) = ndx
           neg_ok == Count(sig, -1) = getTotalConstraintDim
           zer_ok == Count(sig, 0) = 0
       IN  IF ~(pos_ok /\ neg_ok /\ zer_ok) THEN "INERTIA_BAD" ELSE "INERTIA_OK"

\* checkInertia; "error" is the runtime error of the default case
checkInertia(sig) ==
  IF \E i \in DOMAIN sig : sig[i] \notin {1, 0, -1} THEN "error"
  ELSE LET pos_ok == Count(sig, 1) = ndx
           neg_ok == Count(sig, -1) = getTotalConstraintDim
           zer_ok == Count(sig, 0) = 0
       IN  IF ~(pos_ok /\ neg_ok /\ zer_ok)
           THEN IF ~zer_ok THEN "INERTIA_HAS_ZEROS" ELSE "INERTIA_BAD"
           ELSE "INERTIA_OK"

\* variant: the two increase factors change places
NextDelta_SwapIncrease(d, dl) ==
  IF d = ZeroS
  THEN IF dl = ZeroS THEN DELTA_NONZERO_INIT ELSE Max(DELTA_MIN, Mul(del_dec_k, dl))
  ELSE IF dl = ZeroS THEN Mul(d, del_inc_k) ELSE Mul(d, del_inc_big)

\* the regularisation tried after a rejected factorization
NextDelta(d, dl) ==
  IF d = ZeroS
  THEN IF dl = ZeroS THEN DELTA_NONZERO_INIT ELSE Max(DELTA_MIN, Mul(del_dec_k, dl))
  ELSE IF dl = ZeroS THEN Mul(d, del_inc_big) ELSE Mul(d, del_inc_k)

\* kkt_matrix.diagonal().head(ndx).array() += delta, done when delta > 0
AddDelta(shift, d) ==
  IF d > ZeroS THEN [shift EXCEPT ![d] = @ + 1] ELSE shift

\* kkt_matrix.diagonal().head(ndx).array() -= delta; subtracting 0 changes nothing
SubtractDelta(shift, d) ==
  IF d = ZeroS THEN shift ELSE [shift EXCEPT ![d] = @ - 1]

\* the condition of the inertia-correction loop
InertiaLoopCond == ~(is_inertia_correct = "INERTIA_OK") /\ delta <= DELTA_MAX

\* one trial: factorize with delta, read the signature, classify it
InertiaTrial ==
  /\ pc = "inertia_loop"
  /\ InertiaLoopCond
  /\ \E sig \in SignatureInputs :
       /\ IF checkInertia(sig) = "error"
          THEN /\ Raise("signature")
               /\ UNCHANGED <<hist_vars>>
          ELSE /\ is_inertia_correct' = checkInertia(sig)
               /\ IF checkInertia(sig) = "INERTIA_OK"
                  THEN /\ delta_last' = delta
                       /\ delta' = delta
                       /\ pc' = "newton_step"
                  ELSE /\ delta_last' = delta_last
                       /\ delta' = NextDelta(delta, delta_last)
                       /\ pc' = "inertia_loop"
               /\ UNCHANGED <<frame_vars, error, hist_vars>>
  /\ kkt_shift' = SubtractDelta(AddDelta(kkt_shift, delta), delta)
  /\ UNCHANGED <<solver_vars, results_vars, x_prev, lams_prev, kkt_nan>>
  /\ UNCHANGED <<block_vars, unit_vars, cost_vars>>

\* the loop condition fails: control continues after the loop
InertiaLoopEnd ==
  /\ pc = "inertia_loop"
  /\ ~InertiaLoopCond
  /\ pc' = "newton_step"
  /\ UNCHANGED <<solver_vars, results_vars, workspace_vars, local_vars, frame_vars,
                 error, hist_vars>>
  /\ UNCHANGED <<block_vars, unit_vars, cost_vars>>

\* -------------------------------------------------------------- Newton step

\* a guard between the linear solve and the acceptance of the step fires:
\* pd_step, the line-search strategy, alpha_opt, x_trial, lams_trial
NewtonRaise ==
  /\ pc = "newton_step"
  /\ \E name \in {"pd_step", "linesearch", "alpha_opt", "x_trial", "lams_trial"} :
       /\ name = "linesearch" <=> ls_strat # "ARMIJO"
       /\ Raise(name)
  /\ UNCHANGED <<solver_vars, results_vars, workspace_vars, hist_vars>>
  /\ UNCHANGED <<block_vars, unit_vars, cost_vars>>

\* the trial point is stored in results, then the merit guard fires
NewtonRaiseMerit ==
  /\ pc = "newton_step"
  /\ ls_strat = "ARMIJO"
  /\ x_opt' = TrialPoint(x_opt)
  /\ lams_opt' = TrialLams(lams_opt)
  /\ Raise("merit")
  /\ UNCHANGED <<solver_vars, num_iters, converged, prim_infeas, dual_infeas,
                 workspace_vars, hist_vars>>
  /\ UNCHANGED <<block_vars, unit_vars, cost_vars>>

\* variant: the comparison with max_iters is strict
AfterStepPc_OffByOne(n) == IF n > max_iters THEN "outer_update" ELSE "inner_loop"

\* variant: the loop is not left
AfterStepPc_NoBreak(n) == "inner_loop"

\* where the inner loop goes after num_iters++ gave n
AfterStepPc(n) == IF n >= max_iters THEN "outer_update" ELSE "inner_loop"

\* the step is accepted: results updated, iteration counted, max_iters tested
\* (the flag is assigned inside the loop and again after it)
NewtonAccept ==
  /\ pc = "newton_step"
  /\ ls_strat = "ARMIJO"
  /\ x_opt' = TrialPoint(x_opt)
  /\ lams_opt' = TrialLams(lams_opt)
  /\ num_iters' = num_iters + 1
  /\ IF num_iters + 1 >= max_iters
     THEN /\ converged' = "MAX_ITERS_REACHED"
          /\ conv_writes' = conv_writes \o <<"MAX_ITERS_REACHED", "MAX_ITERS_REACHED">>
     ELSE UNCHANGED <<converged, conv_writes>>
  /\ pc' = AfterStepPc(num_iters + 1)
  /\ UNCHANGED <<solver_vars, prim_infeas, dual_infeas, workspace_vars, local_vars,
                 frame_vars, error, converged_entry>>
  /\ UNCHANGED <<block_vars, unit_vars, cost_vars>>

\* --------------------------------------------------------------- block LDLT

\* trans(a), trans(trans(a)), add and mul in both argument orders
ApplyKindOps ==
  /\ blk_pc = "start"
  /\ \E a \in BlockKinds, b \in BlockKinds :
       /\ kind_args' = <<a, b>>
       /\ kind_out' = [trans |-> trans(a), trans_trans |-> trans(trans(a)),
                       add |-> add(a, b), add_swapped |-> add(b, a),
                       mul |-> mul(a, b), mul_swapped |-> mul(b, a)]
  /\ blk_pc' = "kinds"
  /\ UNCHANGED <<blk_in, blk_self, blk_origin, blk_off, blk_ret,
                 iwork, best_perm, best_perm_nnz, first_iter>>
  /\ UNCHANGED <<solve_vars, unit_vars, cost_vars>>

\* a caller builds a symmetric structure by hand
BuildStructure ==
  /\ blk_pc = "start"
  /\ \E lens \in LensInputs : blk_in' \in StructureInputs(lens)
  /\ blk_origin' = "built"
  /\ blk_pc' = "matrix"
  /\ UNCHANGED <<kind_args, kind_out, blk_self, blk_off, blk_ret,
                 iwork, best_perm, best_perm_nnz, first_iter>>
  /\ UNCHANGED <<solve_vars, unit_vars, cost_vars>>

\* allocate_ldlt_from_problem with LDLTChoice::BLOCKED
AllocateFromProblem ==
  /\ blk_pc = "start"
  /\ \E k \in 1..getNumConstraints : blk_in' = allocate_ldlt_from_problem(k)
  /\ blk_origin' = "allocated"
  /\ blk_pc' = "matrix"
  /\ UNCHANGED <<kind_args, kind_out, blk_self, blk_off, blk_ret,
                 iwork, best_perm, best_perm_nnz, first_iter>>
  /\ UNCHANGED <<solve_vars, unit_vars, cost_vars>>

\* llt_in_place is called on a copy of the structure
LltCall ==
  /\ blk_pc = "matrix"
  /\ blk_self' = deep_copy(blk_in, iota(nsegments(blk_in)))
  /\ blk_off' = 1
  /\ blk_pc' = "llt"
  /\ UNCHANGED <<kind_args, kind_out, blk_in, blk_origin, blk_ret,
                 iwork, best_perm, best_perm_nnz, first_iter>>
  /\ UNCHANGED <<solve_vars, unit_vars, cost_vars>>

\* llt_in_place: one level of the recursion, the pivot is Diag or Dense
LltStep ==
  /\ blk_pc = "llt"
  /\ blk_off <= nsegments(blk_self)
  /\ PivotAccepted(blk_self.tags, blk_off)
  /\ blk_self' = [blk_self EXCEPT !.tags = EliminationStep(blk_self.tags, blk_off)]
  /\ blk_off' = blk_off + 1
  /\ UNCHANGED <<blk_pc, kind_args, kind_out, blk_in, blk_origin, blk_ret,
                 iwork, best_perm, best_perm_nnz, first_iter>>
  /\ UNCHANGED <<solve_vars, unit_vars, cost_vars>>

\* llt_in_place: the pivot is Zero, TriL or TriU, return false
LltRefuse ==
  /\ blk_pc = "llt"
  /\ blk_off <= nsegments(blk_self)
  /\ ~PivotAccepted(blk_self.tags, blk_off)
  /\ blk_self' = [blk_self EXCEPT !.tags = ZeroTriu(blk_self.tags, blk_off)]
  /\ blk_ret' = "false"
  /\ blk_pc' = "llt_done"
  /\ UNCHANGED <<kind_args, kind_out, blk_in, blk_origin, blk_off,
                 iwork, best_perm, best_perm_nnz, first_iter>>
  /\ UNCHANGED <<solve_vars, unit_vars, cost_vars>>

\* llt_in_place: segments_count == 0, return true
LltReturn ==
  /\ blk_pc = "llt"
  /\ blk_off > nsegments(blk_self)
  /\ blk_ret' = "true"
  /\ blk_pc' = "llt_done"
  /\ UNCHANGED <<kind_args, kind_out, blk_in, blk_self, blk_origin, blk_off,
                 iwork, best_perm, best_perm_nnz, first_iter>>
  /\ UNCHANGED <<solve_vars, unit_vars, cost_vars>>

\* brute_force_best_permutation up to its loop; best_perm is the caller's
\* buffer, not yet written
BruteForceCall ==
  /\ blk_pc = "matrix"
  /\ iwork' = iota(nsegments(blk_in))
  /\ first_iter' = TRUE
  /\ best_perm_nnz' = 0
  /\ blk_pc' = "brute_force"
  /\ UNCHANGED <<kind_args, kind_out, blk_in, blk_self, blk_origin, blk_off, blk_ret,
                 best_perm>>
  /\ UNCHANGED <<solve_vars, unit_vars, cost_vars>>

\* the copy of `in` permuted by iwork, after llt_in_place
TriedPermutation == llt_in_place(deep_copy(blk_in, iwork), 1)

\* brute_force_best_permutation: llt_in_place fails for the permutation
BruteForceFail ==
  /\ blk_pc = "brute_force"
  /\ ~TriedPermutation.ok
  /\ blk_self' = TriedPermutation.self
  /\ blk_ret' = "NumericalIssue"
  /\ blk_pc' = "brute_force_done"
  /\ UNCHANGED <<kind_args, kind_out, blk_in, blk_origin, blk_off,
                 iwork, best_perm, best_perm_nnz, first_iter>>
  /\ UNCHANGED <<solve_vars, unit_vars, cost_vars>>

\* brute_force_best_permutation: the body of the loop for a permutation that
\* factorizes
KeepBest ==
  /\ blk_self' = TriedPermutation.self
  /\ IF first_iter \/ count_nnz(TriedPermutation.self) < best_perm_nnz
     THEN /\ best_perm' = iwork
          /\ best_perm_nnz' = count_nnz(TriedPermutation.self)
     ELSE UNCHANGED <<best_perm, best_perm_nnz>>
  /\ first_iter' = FALSE
  /\ iwork' = next_permutation(iwork).perm

\* brute_force_best_permutation: one pass of the loop, another permutation
\* follows
BruteForceNext ==
  /\ blk_pc = "brute_force"
  /\ TriedPermutation.ok
  /\ next_permutation(iwork).more
  /\ KeepBest
  /\ UNCHANGED <<blk_pc, kind_args, kind_out, blk_in, blk_origin, blk_off, blk_ret>>
  /\ UNCHANGED <<solve_vars, unit_vars, cost_vars>>

\* brute_force_best_permutation: the last pass of the loop, return Success
BruteForceLast ==
  /\ blk_pc = "brute_force"
  /\ TriedPermutation.ok
  /\ ~next_permutation(iwork).more
  /\ KeepBest
  /\ blk_ret' = "Success"
  /\ blk_pc' = "brute_force_done"
  /\ UNCHANGED <<kind_args, kind_out, blk_in, blk_origin, blk_off>>
  /\ UNCHANGED <<solve_vars, unit_vars, cost_vars>>

\* the solver as constructed and not called; the block part ready for a call
BlockInit ==
  /\ SolverInit
  /\ max_iters = MaxIters
  /\ rho_init_ = ZeroS
  /\ ls_strat = "ARMIJO"
  /\ converged = "UNINITIALIZED"
  /\ BlockIdle("start")
  /\ UnitIdle("idle")
  /\ CostIdle("idle")

BlockNext ==
  \/ ApplyKindOps
  \/ BuildStructure
  \/ AllocateFromProblem
  \/ LltCall
  \/ LltStep
  \/ LltRefuse
  \/ LltReturn
  \/ BruteForceCall
  \/ BruteForceFail
  \/ BruteForceNext
  \/ BruteForceLast

BlockSpec == BlockInit /\ [][BlockNext]_vars

\* ------------------------------------- checkInertia and computeMultipliers

\* signatures handed to checkInertia: every vector of the size of the KKT
\* system over the signs and two values that are no sign, and sign vectors
\* one entry shorter and one entry longer
SignValues == {-1, 0, 1}
SignatureSpace ==
  [1..(ndx + numdual) -> SignValues \cup {-2, 2}]
    \cup [1..(ndx + numdual - 1) -> SignValues]
    \cup [1..(ndx + numdual + 1) -> SignValues]

\* checkInertia(signature) called on its own
CheckInertiaCall ==
  /\ fn_pc = "start"
  /\ \E sig \in SignatureSpace :
       /\ fn_args' = sig
       /\ fn_out' = checkInertia(sig)
  /\ fn_pc' = "inertia"
  /\ UNCHANGED <<solve_vars, block_vars, cost_vars>>

\* Scalars of computeMultipliers are integers, taken so that every quotient
\* by mu is exact: mu is 1 or 2, the constraint values are even.
MuInputs == {1, 2}
CstrValueInputs == [1..numdual -> {-2, 0, 2}]
LamsPrevInputs == [1..numdual -> {-1, 0, 1}]
InnerLamsInputs == [1..numdual -> {-1, 1}]

\* the constraint whose segment holds entry k (1-based) of a flat vector
ConstraintOf(k) ==
  CHOOSE i \in 1..getNumConstraints : getIndex(i) < k /\ k <= getIndex(i) + getConstraintDim(i)

\* the segment of constraint i in a flat vector
Segment(v, i) == [k \in 1..getConstraintDim(i) |-> v[getIndex(i) + k]]

\* the constraint sets of the problem: an equality constraint c(x) = 0 and an
\* inequality constraint c(x) <= 0
ConstraintSets == <<"EqualityConstraint", "NegativeOrthant">>

\* normalConeProjection(z, out) of constraint i: z minus the projection of z
\* on the set, i.e. z for {0} and the positive part of z for the negative orthant
normalConeProjection(i, z) ==
  IF ConstraintSets[i] = "EqualityConstraint"
  THEN z
  ELSE [k \in DOMAIN z |-> IF z[k] > 0 THEN z[k] ELSE 0]

\* v * mu_inv_ with mu_inv_ = 1 / mu_
TimesMuInv(v, m) == v \div m

\* variant: the shift is taken from the inner multipliers
computeMultipliers_ShiftByInner(m, cstr_values, lams_prev_data, inner_lams_data) ==
  LET shift == [k \in 1..numdual |-> cstr_values[k] + m * inner_lams_data[k]]
      proj == [k \in 1..numdual |->
                 normalConeProjection(ConstraintOf(k), Segment(shift, ConstraintOf(k)))
                   [k - getIndex(ConstraintOf(k))]]
      plus == [k \in 1..numdual |-> TimesMuInv(proj[k], m)]
  IN  [data_cstr_values |-> cstr_values,
       data_lams_prev |-> lams_prev_data,
       inner_lams_data |-> inner_lams_data,
       data_shift_cstr_values |-> shift,
       data_lams_plus |-> plus,
       data_dual_prox_err |-> [k \in 1..numdual |-> m * (plus[k] - inner_lams_data[k])],
       data_lams_pdal |-> [k \in 1..numdual |-> 2 * plus[k] - inner_lams_data[k]]]

\* computeMultipliers: the workspace and the inner multipliers after the call
computeMultipliers(m, cstr_values, lams_prev_data, inner_lams_data) ==
  LET shift == [k \in 1..numdual |-> cstr_values[k] + m * lams_prev_data[k]]
      proj == [k \in 1..numdual |->
                 normalConeProjection(ConstraintOf(k), Segment(shift, ConstraintOf(k)))
                   [k - getIndex(ConstraintOf(k))]]
      plus == [k \in 1..numdual |-> TimesMuInv(proj[k], m)]
  IN  [data_cstr_values |-> cstr_values,
       data_lams_prev |-> lams_prev_data,
       inner_lams_data |-> inner_lams_data,
       data_shift_cstr_values |-> shift,
       data_lams_plus |-> plus,
       data_dual_prox_err |-> [k \in 1..numdual |-> m * (plus[k] - inner_lams_data[k])],
       data_lams_pdal |-> [k \in 1..numdual |-> 2 * plus[k] - inner_lams_data[k]]]

\* computeMultipliers(x, inner_lams_data, workspace) called on its own
ComputeMultipliersCall ==
  /\ fn_pc = "start"
  /\ \E m \in MuInputs, cv \in CstrValueInputs, lp \in LamsPrevInputs, il \in InnerLamsInputs :
       /\ fn_args' = [mu_ |-> m, data_cstr_values |-> cv, data_lams_prev |-> lp,
                      inner_lams_data |-> il]
       /\ fn_out' = computeMultipliers(m, cv, lp, il)
  /\ fn_pc' = "multipliers"
  /\ UNCHANGED <<solve_vars, block_vars, cost_vars>>

UnitInit ==
  /\ SolverInit
  /\ max_iters = MaxIters
  /\ rho_init_ = ZeroS
  /\ ls_strat = "ARMIJO"
  /\ converged = "UNINITIALIZED"
  /\ BlockIdle("idle")
  /\ UnitIdle("start")
  /\ CostIdle("idle")

UnitNext ==
  \/ CheckInertiaCall
  \/ ComputeMultipliersCall

UnitSpec == UnitInit /\ [][UnitNext]_vars

\* ----------------------------------------------------------------- CostSum

\* cost functions, by identity (the components are pointers)
Components == {"f", "g"}
\* weights passed to addComponent; 1 is the default argument
WeightInputs == {1, 2}
\* factors passed to operator*=
ScaleInputs == {0, 2}
\* CostSum objects on the right of +=, distinct from *this
RhsSums ==
  { EmptySum,
    [components |-> <<"f">>, weights |-> <<2>>],
    [components |-> <<"g", "f">>, weights |-> <<1, 2>>] }

\* the record of an operator call: the lists of *this before it and its argument
Call(op, rhs) ==
  [op |-> op, components |-> m_components, weights |-> m_weights, rhs |-> rhs]

\* addComponent(comp, w): push_back on both lists
addComponent(comp, w) ==
  /\ m_components' = Append(m_components, comp)
  /\ m_weights' = Append(m_weights, w)

\* a call of addComponent with a weight
CostAddComponent ==
  /\ cs_pc = "ready"
  /\ Len(m_components) < MaxComponents
  /\ \E comp \in Components, w \in WeightInputs :
       /\ addComponent(comp, w)
       /\ cs_call' = Call("addComponent", [components |-> <<comp>>, weights |-> <<w>>])
  /\ UNCHANGED <<cs_pc, cs_depth>>
  /\ UNCHANGED <<solve_vars, block_vars, unit_vars>>

\* operator+=(const Base& other): addComponent(other) with the default weight
CostPlusEqCost ==
  /\ cs_pc = "ready"
  /\ Len(m_components) < MaxComponents
  /\ \E other \in Components :
       /\ addComponent(other, 1)
       /\ cs_call' = Call("plus_eq_cost", [components |-> <<other>>, weights |-> <<1>>])
  /\ UNCHANGED <<cs_pc, cs_depth>>
  /\ UNCHANGED <<solve_vars, block_vars, unit_vars>>

\* operator+=(const CostSum& other): insert other's lists at the end
CostPlusEqSum ==
  /\ cs_pc = "ready"
  /\ \E other \in RhsSums :
       /\ Len(m_components) + Len(other.components) <= MaxComponents
       /\ m_components' = m_components \o other.components
       /\ m_weights' = m_weights \o other.weights
       /\ cs_call' = Call("plus_eq_sum", other)
  /\ UNCHANGED <<cs_pc, cs_depth>>
  /\ UNCHANGED <<solve_vars, block_vars, unit_vars>>

\* operator+=(CostSum&& rhs) is entered: its body is
\* (*this) += std::forward<CostSum<Scalar>>(rhs), an rvalue again
CostPlusEqRvalueCall ==
  /\ cs_pc = "ready"
  /\ \E rhs \in RhsSums :
       /\ Len(m_components) + Len(rhs.components) <= MaxComponents
       /\ cs_call' = Call("plus_eq_rvalue", rhs)
  /\ cs_pc' = "plus_eq_rvalue"
  /\ cs_depth' = 1
  /\ UNCHANGED <<m_components, m_weights>>
  /\ UNCHANGED <<solve_vars, block_vars, unit_vars>>

\* the call in the body resolves to operator+=(CostSum&&): one more frame
CostPlusEqRvalueRecurse ==
  /\ cs_pc = "plus_eq_rvalue"
  /\ cs_depth < MaxDepth
  /\ cs_depth' = cs_depth + 1
  /\ UNCHANGED <<cs_pc, m_components, m_weights, cs_call>>
  /\ UNCHANGED <<solve_vars, block_vars, unit_vars>>

\* the stack is exhausted: the process is killed
CostPlusEqRvalueOverflow ==
  /\ cs_pc = "plus_eq_rvalue"
  /\ cs_depth = MaxDepth
  /\ cs_pc' = "crashed"
  /\ UNCHANGED <<m_components, m_weights, cs_call, cs_depth>>
  /\ UNCHANGED <<solve_vars, block_vars, unit_vars>>

\* a build that turns the call into a jump reuses the frame: the call runs
\* for ever
CostPlusEqRvalueLoop ==
  /\ cs_pc = "plus_eq_rvalue"
  /\ cs_depth = 1
  /\ cs_pc' = "looping"
  /\ UNCHANGED <<m_components, m_weights, cs_call, cs_depth>>
  /\ UNCHANGED <<solve_vars, block_vars, unit_vars>>

\* operator*=(rhs): every weight is multiplied by rhs
CostTimesEq ==
  /\ cs_pc = "ready"
  /\ \E rhs \in ScaleInputs :
       /\ \A k \in DOMAIN m_weights : rhs * m_weights[k] <= MaxWeight
       /\ m_weights' = [k \in DOMAIN m_weights |-> rhs * m_weights[k]]
       /\ cs_call' = Call("times_eq", [components |-> <<>>, weights |-> <<rhs>>])
  /\ UNCHANGED <<cs_pc, m_components, cs_depth>>
  /\ UNCHANGED <<solve_vars, block_vars, unit_vars>>

CostInit ==
  /\ SolverInit
  /\ max_iters = MaxIters
  /\ rho_init_ = ZeroS
  /\ ls_strat = "ARMIJO"
  /\ converged = "UNINITIALIZED"
  /\ BlockIdle("idle")
  /\ UnitIdle("idle")
  /\ CostIdle("ready")

CostNext ==
  \/ CostAddComponent
  \/ CostPlusEqCost
  \/ CostPlusEqSum
  \/ CostPlusEqRvalueCall
  \/ CostPlusEqRvalueRecurse
  \/ CostPlusEqRvalueOverflow
  \/ CostPlusEqRvalueLoop
  \/ CostTimesEq

\* the operators run on the caller's thread without suspending: a step that
\* can be taken is taken
CostSpec == CostInit /\ [][CostNext]_vars /\ WF_vars(CostNext)

\* ----------------------------------------------------------- specification

Next ==
  \/ SolveList
  \/ SolveNoLams
  \/ SolveFlat
  \/ SolveInit
  \/ OuterIterate
  \/ OuterExit
  \/ OuterSuccessTerminate
  \/ OuterSuccessUpdate
  \/ OuterFailureUpdate
  \/ InnerRaiseNaN
  \/ InnerStop
  \/ InnerAssemble
  \/ InertiaTrial
  \/ InertiaLoopEnd
  \/ NewtonRaise
  \/ NewtonRaiseMerit
  \/ NewtonAccept

Spec == Init /\ [][Next]_vars

\* solve runs on the caller's thread without suspending: a step that can be
\* taken is taken
FairSpec == Init /\ [][Next]_vars /\ WF_vars(Next)

\* ------------------------------------------------------------------ claims

\* errors raised inside the inner loop
InnerErrors == {"prox_grad", "kkt_rhs", "kkt_matrix", "signature", "pd_step",
                "linesearch", "alpha_opt", "x_trial", "lams_trial", "merit"}

\* C1: every call of solve eventually returns or raises.
C1_SolveTerminates == (pc = "solve_flat") ~> (pc \in {"done", "raised"})

\* C2: when solve returns, results.converged is SUCCESS or MAX_ITERS_REACHED and
\* was assigned by this call.
C2_ReturnedFlagIsOfThisCall ==
  pc = "done" => (converged \in {"SUCCESS", "MAX_ITERS_REACHED"} /\ conv_writes # <<>>)

\* C3: a step that assigns SUCCESS to results.converged is taken with
\* prim_infeas < prim_tol, prim_infeas < target_tol and dual_infeas < target_tol
\* for the stored residuals; it accepts the multipliers, changes neither mu, rho
\* nor the tolerances, and ends the call, after which nothing is updated.
C3_SuccessOnlyWhenConverged ==
  [][ /\ (conv_writes' = Append(conv_writes, "SUCCESS")) =>
           /\ prim_infeas < prim_tol
           /\ prim_infeas < target_tol
           /\ dual_infeas < target_tol
           /\ lams_prev' = lams_opt
           /\ UNCHANGED <<mu, rho, prim_tol, inner_tol, prim_infeas, dual_infeas, lams_opt>>
           /\ pc' = "done"
      /\ (pc = "done") => UNCHANGED <<mu, rho, prim_tol, inner_tol>> ]_vars

\* C3 witness: a call returned SUCCESS after at least one Newton step
C3_Witness ==
  /\ pc = "done"
  /\ conv_writes = <<"SUCCESS">>
  /\ num_iters > 0
  /\ lams_prev = lams_opt

C5_FlagNeverOverwritten ==
  [][ /\ (conv_writes # <<>>) => (converged' = converged)
      /\ \A i \in DOMAIN conv_writes' : conv_writes'[i] = converged' ]_vars

\* C5 witness: MAX_ITERS_REACHED was assigned in the inner loop, the outer loop
\* went on with a success update, and the call returned
C5_Witness ==
  /\ pc = "done"
  /\ conv_writes # <<>>
  /\ converged = "MAX_ITERS_REACHED"
  /\ lams_prev = lams_opt
  /\ num_iters > 0

\* C6: from the initial tolerance update of solve on, prim_tol >= target_tol and
\* inner_tol >= inner_tol_min, in particular at every inner solve.
C6_ToleranceFloors ==
  pc \in {"outer_loop", "inner_loop", "inertia_loop", "newton_step", "outer_update", "done"} =>
     /\ prim_tol >= target_tol
     /\ inner_tol >= inner_tol_min

\* C6 witness: an inner solve runs with both tolerances on their floors
C6_Witness ==
  /\ pc = "inner_loop"
  /\ prim_tol = target_tol
  /\ inner_tol = inner_tol_min

\* C7: the step that raises the size-mismatch error of the per-constraint
\* entrypoint changes nothing of the solver, the results and the workspace.
C7_MismatchChangesNothing ==
  [][ (error' = "num_multipliers") =>
         /\ pc' = "raised"
         /\ UNCHANGED <<solver_vars, results_vars, workspace_vars>> ]_vars

\* C7 witness: the per-constraint entrypoint raised the size-mismatch error
C7_Witness == pc = "raised" /\ error = "num_multipliers"

\* C8: the three entrypoints arrive at the flat overload in the same state but
\* for lams0: the per-constraint list arrives as the vector holding list[i] in
\* [getIndex(i), getIndex(i) + r_i), the call without multipliers as the zero
\* vector of length numdual; solver, results and workspace are untouched.
C8_EntrypointsAgree ==
  pc = "solve_flat" =>
     /\ entry = "list" =>
          /\ DOMAIN lams0 = 1..numdual
          /\ \A i \in 1..getNumConstraints : \A k \in 1..getConstraintDim(i) :
                lams0[getIndex(i) + k] = arg_list[i][k]
     /\ entry = "x0" =>
          /\ DOMAIN lams0 = 1..numdual
          /\ \A k \in 1..numdual : lams0[k] = 0
     /\ entry = "flat" => lams0 = arg_list[1]
     /\ x_opt = 0 /\ lams_opt = ZeroLams /\ num_iters = 0 /\ converged = converged_entry
     /\ x_prev = 0 /\ lams_prev = ZeroLams /\ mu = mu_init_ /\ rho = rho_init_

\* C8 witness: the per-constraint overload called the flat one with <<7>>, <<5, 6>>
C8_Witness ==
  /\ pc = "solve_flat"
  /\ entry = "list"
  /\ arg_list = << <<7>>, <<5, 6>> >>
  /\ lams0 = <<7, 5, 6>>

\* C9: the Newton step is computed only from a factorization classified
\* INERTIA_OK.
C9_StepOnlyWithCorrectInertia ==
  pc = "newton_step" => is_inertia_correct = "INERTIA_OK"

\* C10: when an error of the inner loop leaves solve, results.converged holds the
\* value it had on entry and was not assigned during the call.
C10_ErrorLeavesFlag ==
  (pc = "raised" /\ error \in InnerErrors) =>
     /\ converged = converged_entry
     /\ conv_writes = <<>>

\* C10 witness: an inner-loop error after an accepted Newton step
C10_Witness ==
  /\ pc = "raised"
  /\ error \in InnerErrors
  /\ num_iters > 0

\* C11: a KKT matrix assembled at the current inner iterate that contains a
\* NaN raises the kkt_matrix error before it is passed to the LDLT
\* factorization, i.e. no factorization is computed of a matrix with a NaN.
C11_MatrixGuardedBeforeFactorization ==
  (pc = "inertia_loop" /\ InertiaLoopCond) => ~kkt_nan

\* C12: llt_in_place returns true for every symmetric structure whose
\* diagonal blocks are all Diag or Dense.
C12_LltAcceptsFactorizable ==
  (/\ blk_pc = "llt_done"
   /\ blk_origin = "built"
   /\ \A i \in 1..nsegments(blk_in) : blk_in.tags[<<i, i>>] \in {Diag, Dense})
  => blk_ret = "true"

\* C13: when brute_force_best_permutation returns, best_perm is a permutation
\* whose symbolic LLT succeeds and whose nnz is the minimum over all the
\* permutations whose symbolic LLT succeeds; failing permutations are skipped.
C13_BestPermutationIsMinimal ==
  blk_pc = "brute_force_done" =>
    LET tried(p) == llt_in_place(deep_copy(blk_in, p), 1)
        factorizes == {p \in PermSet(nsegments(blk_in)) : tried(p).ok}
    IN  factorizes # {} =>
          /\ best_perm \in factorizes
          /\ \A p \in factorizes :
               count_nnz(tried(best_perm).self) <= count_nnz(tried(p).self)

\* C14: the structure allocated for one primal block and k >= 1 dual blocks is
\* symmetric, Dense in the primal-primal block and in every primal-dual block
\* (1, i) and (i, 1), Zero in the dual-dual blocks off the diagonal, Diag on
\* the dual diagonal, with segment lengths (ndx, r_1, ..., r_k).
C14_DefaultStructure ==
  (blk_pc = "matrix" /\ blk_origin = "allocated") =>
    LET n == nsegments(blk_in)
        T == blk_in.tags
    IN  /\ n >= 2
        /\ blk_in.segment_lens = <<ndx>> \o [i \in 1..(n - 1) |-> getConstraintDim(i)]
        /\ T[<<1, 1>>] = Dense
        /\ \A i \in 2..n :
             /\ T[<<1, i>>] = Dense
             /\ T[<<i, 1>>] = Dense
             /\ T[<<i, i>>] = Diag
             /\ \A j \in 2..n : j # i => T[<<i, j>>] = Zero

\* C15: trans(TriL) = TriU, trans(TriU) = TriL, trans(a) = a for the other
\* kinds, and trans(trans(a)) = a for every kind.
C15_TransSwapsTriangular ==
  blk_pc = "kinds" =>
    LET a == kind_args[1]
    IN  /\ kind_out.trans = (IF a = TriL THEN TriU ELSE IF a = TriU THEN TriL ELSE a)
        /\ kind_out.trans_trans = a

\* C16: for all pairs (a, b) of kinds, add(a, b) is Dense if a or b is Dense
\* or {a, b} = {TriL, TriU} and otherwise the larger of the two in the order
\* Zero < Diag < TriL < TriU < Dense; mul(a, b) is Zero if a or b is Zero and
\* add(a, b) otherwise; both are commutative.
C16_AddMulTable ==
  blk_pc = "kinds" =>
    LET a == kind_args[1]
        b == kind_args[2]
        order == <<Zero, Diag, TriL, TriU, Dense>>
        rank(k) == CHOOSE i \in DOMAIN order : order[i] = k
        larger == IF rank(a) < rank(b) THEN b ELSE a
        sum == IF a = Dense \/ b = Dense \/ {a, b} = {TriL, TriU} THEN Dense ELSE larger
    IN  /\ kind_out.add = sum
        /\ kind_out.mul = (IF a = Zero \/ b = Zero THEN Zero ELSE sum)
        /\ kind_out.add_swapped = kind_out.add
        /\ kind_out.mul_swapped = kind_out.mul

\* C16 witness: the sum of a lower and an upper triangular block is Dense
C16_Witness ==
  /\ blk_pc = "kinds"
  /\ kind_args = <<TriL, TriU>>
  /\ kind_out.add = Dense
  /\ kind_out.mul = Dense

\* C17: one elimination step with a Diag or Dense pivot zeroes S(0, j), turns
\* a Dense pivot into TriL, promotes every S(i, 0) (Zero, Diag -> TriU,
\* TriL -> Dense), sets S(i, j) to add(S(i, j), mul(S(i, 0), trans(S(j, 0))))
\* for j >= i >= 1 and S(j, i) to trans(S(i, j)), trans swapping TriL and TriU,
\* and goes on with the trailing submatrix.
C17_EliminationStepAsSpecified ==
  [][ (/\ blk_pc = "llt"
       /\ blk_off <= nsegments(blk_self)
       /\ blk_self.tags[<<blk_off, blk_off>>] \in {Diag, Dense}
       /\ blk_off' = blk_off + 1)
      =>
      LET T == blk_self.tags
          o == blk_off
          swap(a) == IF a = TriL THEN TriU ELSE IF a = TriU THEN TriL ELSE a
          promoted(k) == IF k \in {Zero, Diag} THEN TriU ELSE IF k = TriL THEN Dense ELSE k
          col(i) == promoted(T[<<i, o>>])
          upd(i, j) == add(T[<<i, j>>], mul(col(i), swap(col(j))))
      IN  blk_self'.tags =
            [p \in DOMAIN T |->
               IF p[1] < o \/ p[2] < o THEN T[p]
               ELSE IF p = <<o, o>> THEN (IF T[p] = Dense THEN TriL ELSE T[p])
               ELSE IF p[1] = o THEN Zero
               ELSE IF p[2] = o THEN col(p[1])
               ELSE IF p[1] <= p[2] THEN upd(p[1], p[2])
               ELSE swap(upd(p[2], p[1]))]
    ]_vars

C19_TargetMovesOnlyOnAcceptance ==
  [][ (pc = "outer_update" /\ ~(prim_infeas < prim_tol)) =>
        (prox_target' = prox_target /\ x_prev' = x_prev)
    ]_vars

\* C20: the failure update sets mu to mu_init if mu = mu_lower and to
\* max(mu * mu_update_factor, mu_lower) otherwise, then sets
\* eta = max(target_tol, prim_tol0 * mu^prim_alpha) and
\* omega = max(inner_tol_min, inner_tol0 * mu^dual_alpha) from the new mu
\* alone; the success update keeps mu and scales the previous eta and omega.
C20_FailureUpdateFromScratch ==
  [][ /\ (pc = "outer_update" /\ ~(prim_infeas < prim_tol)) =>
           /\ mu' = (IF mu = mu_lower_ THEN mu_init_
                     ELSE Max(Mul(mu, mu_update_factor), mu_lower_))
           /\ prim_tol' = Max(target_tol, Mul(prim_tol0, Pow(mu', prim_alpha)))
           /\ inner_tol' = Max(inner_tol_min, Mul(inner_tol0, Pow(mu', dual_alpha)))
      /\ (pc = "outer_update" /\ prim_infeas < prim_tol /\ pc' = "outer_loop") =>
           /\ mu' = mu
           /\ prim_tol' = Max(target_tol, Mul(prim_tol, Pow(Div(mu, mu_upper_), prim_beta)))
           /\ inner_tol' = Max(inner_tol_min, Mul(inner_tol, Pow(Div(mu, mu_upper_), dual_beta)))
    ]_vars

\* C20 witness: two failure updates have brought mu to mu_lower and the
\* tolerances to the values computed from it
C20_Witness ==
  /\ pc = "outer_loop"
  /\ mu = mu_lower_
  /\ prim_tol = Max(target_tol, Mul(prim_tol0, Pow(mu_lower_, prim_alpha)))
  /\ inner_tol = Max(inner_tol_min, Mul(inner_tol0, Pow(mu_lower_, dual_alpha)))
  /\ lams_prev # lams_opt


\* C21: solve starts from rho = rho_init_; every outer iteration that does not
\* terminate the solve ends by multiplying rho by rho_update_factor, after an
\* accepted (success) and after a rejected (failure) primal infeasibility
\* alike; after each such update the proximal weight matrix is rho times the
\* identity, with zero off-diagonal entries; rho changes at no other step.
C21_RhoUpdatedEveryOuterIteration ==
  [][ /\ (pc = "solve_flat") => rho' = rho_init_
      /\ (pc = "outer_update" /\ pc' = "outer_loop")
           => /\ rho' = Mul(rho, rho_update_factor)
              /\ weights_'.diag = rho'
              /\ weights_'.offdiag = ZeroS
      /\ (pc = "outer_update" /\ pc' # "outer_loop") => rho' = rho
      /\ (pc \notin {"solve_flat", "outer_update"}) => rho' = rho ]_vars

\* an outer iteration has ended with a rho different from the initial one
C21_Witness ==
  /\ pc = "outer_loop"
  /\ rho_init_ # ZeroS
  /\ rho = Mul(rho_init_, rho_update_factor)
  /\ rho # rho_init_
  /\ weights_ = ScaledIdentity(rho)


\* C23: in the inertia-correction loop of one inner iteration delta starts at
\* DELTA_INIT; after a rejected factorization it becomes DELTA_NONZERO_INIT
\* (delta = 0, delta_last = 0), max(DELTA_MIN, del_dec_k * delta_last)
\* (delta = 0, delta_last > 0), delta * del_inc_big (delta > 0, delta_last = 0)
\* or delta * del_inc_k (delta > 0, delta_last > 0); delta_last changes only
\* when a factorization is accepted and then becomes the accepted delta; after
\* every trial the delta added to the diagonal has been subtracted again, so
\* the matrix is the assembled one during and after the loop.
C23_InertiaCorrectionLoop ==
  [][ /\ (pc = "inner_loop" /\ pc' = "inertia_loop")
           => delta' = DELTA_INIT /\ kkt_shift' = NoShift
      /\ (pc = "inertia_loop" /\ pc' = "inertia_loop")
           => /\ is_inertia_correct' # "INERTIA_OK"
              /\ delta_last' = delta_last
              /\ delta' = CASE delta = ZeroS /\ delta_last = ZeroS -> DELTA_NONZERO_INIT
                            [] delta = ZeroS /\ delta_last > ZeroS
                                 -> Max(DELTA_MIN, Mul(del_dec_k, delta_last))
                            [] delta > ZeroS /\ delta_last = ZeroS -> Mul(delta, del_inc_big)
                            [] delta > ZeroS /\ delta_last > ZeroS -> Mul(delta, del_inc_k)
      /\ (pc = "inertia_loop" /\ pc' = "newton_step")
           => IF is_inertia_correct' = "INERTIA_OK" /\ is_inertia_correct # "INERTIA_OK"
              THEN delta_last' = delta /\ delta' = delta
              ELSE delta_last' = delta_last /\ delta' = delta
      /\ (pc = "inertia_loop") => kkt_shift' = NoShift
      /\ (pc = "newton_step") => kkt_shift' = kkt_shift ]_vars

\* a second inner iteration of one solveInner call: the factorization with
\* delta = 0 was rejected after an earlier nonzero delta had been accepted
C23_Witness ==
  /\ pc = "inertia_loop"
  /\ delta_last > ZeroS
  /\ delta = Max(DELTA_MIN, Mul(del_dec_k, delta_last))
  /\ is_inertia_correct = "INERTIA_HAS_ZEROS"
  /\ kkt_shift = NoShift


C22_CheckInertiaClassifies ==
  (fn_pc = "inertia") =>
     LET ones == {i \in DOMAIN fn_args : fn_args[i] = 1}
         minus == {i \in DOMAIN fn_args : fn_args[i] = -1}
         zeros == {i \in DOMAIN fn_args : fn_args[i] = 0}
         rest == DOMAIN fn_args \ (ones \cup minus \cup zeros)
     IN  /\ (fn_out = "error") <=> (rest # {})
         /\ (fn_out = "INERTIA_OK")
              <=> /\ rest = {}
                  /\ Cardinality(ones) = ndx
                  /\ Cardinality(minus) = numdual
                  /\ zeros = {}
         /\ (fn_out = "INERTIA_HAS_ZEROS")
              <=> (rest = {} /\ zeros # {})
         /\ (fn_out = "INERTIA_BAD")
              <=> /\ rest = {}
                  /\ zeros = {}
                  /\ ~(Cardinality(ones) = ndx /\ Cardinality(minus) = numdual)

\* a signature with the right number of 1 entries and a 0 entry was classified
C22_Witness ==
  /\ fn_pc = "inertia"
  /\ fn_out = "INERTIA_HAS_ZEROS"
  /\ Len(fn_args) = ndx + numdual
  /\ Cardinality({i \in DOMAIN fn_args : fn_args[i] = 1}) = ndx
  /\ Cardinality({i \in DOMAIN fn_args : fn_args[i] = 0}) = 1

\* C24: for every constraint i and the current mu, computeMultipliers leaves
\* shift_i = c_i + mu * lambda_prev_i, lambda_plus_i =
\* normalConeProjection_i(shift_i) / mu, dual_prox_err = mu * (lambda_plus -
\* lambda) and lambda_pdal = 2 * lambda_plus - lambda in the workspace, and it
\* leaves lambda, lambda_prev and the constraint values as they were.
C24_ComputeMultipliers ==
  (fn_pc = "multipliers") =>
     /\ \A i \in 1..getNumConstraints :
          LET c_i == Segment(fn_args.data_cstr_values, i)
              lambda_prev_i == Segment(fn_args.data_lams_prev, i)
              shift_i == Segment(fn_out.data_shift_cstr_values, i)
              lambda_plus_i == Segment(fn_out.data_lams_plus, i)
          IN  \A k \in 1..getConstraintDim(i) :
                /\ shift_i[k] = c_i[k] + fn_args.mu_ * lambda_prev_i[k]
                /\ fn_args.mu_ * lambda_plus_i[k] = normalConeProjection(i, shift_i)[k]
     /\ \A k \in 1..numdual :
          /\ fn_out.data_dual_prox_err[k]
               = fn_args.mu_ * (fn_out.data_lams_plus[k] - fn_args.inner_lams_data[k])
          /\ fn_out.data_lams_pdal[k]
               = 2 * fn_out.data_lams_plus[k] - fn_args.inner_lams_data[k]
     /\ fn_out.inner_lams_data = fn_args.inner_lams_data
     /\ fn_out.data_lams_prev = fn_args.data_lams_prev
     /\ fn_out.data_cstr_values = fn_args.data_cstr_values

\* a call with mu = 2 in which the projection of the inequality constraint cuts
\* one entry of the shift and keeps the other, and lambda differs from lambda_prev
C24_Witness ==
  /\ fn_pc = "multipliers"
  /\ fn_args.mu_ = 2
  /\ fn_args.inner_lams_data # fn_args.data_lams_prev
  /\ Segment(fn_out.data_shift_cstr_values, 2)[1] < 0
  /\ Segment(fn_out.data_shift_cstr_values, 2)[2] > 0
  /\ Segment(fn_out.data_lams_plus, 2) = <<0, TimesMuInv(Segment(fn_out.data_shift_cstr_values, 2)[2], 2)>>
  /\ fn_out.data_lams_plus[1] < 0


\* C26: every operator+= of CostSum returns after it has appended the
\* components and the weights of its right-hand side, in order, to those of
\* the left-hand side: the overload for one cost and the overload for a const
\* CostSum& do so in the call, a call of the overload for CostSum&& leads to
\* the state the const-reference overload produces; and after any sequence of
\* addComponent, operator+= and operator*= the two lists have the same length.
C26_PlusEqualsReturnsAppended ==
  /\ [](Len(m_components) = Len(m_weights))
  /\ [][ (cs_pc = "ready" /\ cs_pc' = "ready"
            /\ cs_call'.op \in {"plus_eq_cost", "plus_eq_sum"})
           => /\ m_components' = m_components \o cs_call'.rhs.components
              /\ m_weights' = m_weights \o cs_call'.rhs.weights ]_vars
  /\ (cs_pc = "plus_eq_rvalue")
       ~> /\ cs_pc = "ready"
          /\ m_components = cs_call.components \o cs_call.rhs.components
          /\ m_weights = cs_call.weights \o cs_call.rhs.weights

====
